---- MODULE Spec2Model ----
(***************************************************************************)
(* The incremental search indexer of hotdoc                                *)
(* (hotdoc/extensions/search/create_index.py): SearchIndex.scan runs       *)
(* load, fill and save over a set of stale files.  Paths, tokens and       *)
(* locations are sequences of one-character strings, so that the string    *)
(* operations of the code (the token regex, str.lower, '%s#%s',            *)
(* replace('#', '-'), the glob prefix, [:-9]) are computed, not assumed.   *)
(***************************************************************************)
EXTENDS Integers, Sequences, FiniteSets, TLC

(* ------------------------------ bounds -------------------------------- *)

\* scans started in one behaviour
MaxScans == 2

(* ---------------------------- characters ------------------------------ *)

UpperChars == <<"A","B","C","D","E","F","G","H","I","J","K","L","M",
                "N","O","P","Q","R","S","T","U","V","W","X","Y","Z">>

LowerChars == <<"a","b","c","d","e","f","g","h","i","j","k","l","m",
                "n","o","p","q","r","s","t","u","v","w","x","y","z">>

DigitChars == {"0","1","2","3","4","5","6","7","8","9"}

Range(s) == {s[i] : i \in DOMAIN s}

\* c.isupper()
IsUpper(c) == c \in Range(UpperChars)

IsLetter(c) == c \in Range(UpperChars) \cup Range(LowerChars)

\* str.lower() on one character
LowerChar(c) ==
    IF IsUpper(c)
    THEN LowerChars[CHOOSE i \in DOMAIN UpperChars : UpperChars[i] = c]
    ELSE c

\* tok.lower()
Lower(tok) == [i \in DOMAIN tok |-> LowerChar(tok[i])]

\* any(c.isupper() for c in tok)
HasUpper(tok) == \E i \in DOMAIN tok : IsUpper(tok[i])

(* ------------------------------ TOK_REGEX ----------------------------- *)

\* [a-zA-Z_]
IsTokStart(c) == IsLetter(c) \/ c = "_"

\* [a-zA-Z0-9_\.]
IsTokMid(c) == IsLetter(c) \/ c \in DigitChars \/ c = "_" \/ c = "."

\* [a-zA-Z0-9_]
IsTokEnd(c) == IsLetter(c) \/ c \in DigitChars \/ c = "_"

\* last index of the maximal run of IsTokMid characters that starts at i
\* (i - 1 when text[i] is not one): what the greedy star consumes
RECURSIVE RunEnd(_, _)
RunEnd(text, i) ==
    IF i <= Len(text) /\ IsTokMid(text[i]) THEN RunEnd(text, i + 1) ELSE i - 1

\* end of the match of TOK_REGEX anchored at i, 0 when there is none: the
\* star backtracks to the last character of the run that can end a token
MatchEnd(text, i) ==
    IF ~IsTokStart(text[i]) THEN 0
    ELSE LET ends == {j \in (i + 1)..RunEnd(text, i + 1) : IsTokEnd(text[j])}
         IN  IF ends = {} THEN 0
             ELSE CHOOSE j \in ends : \A k \in ends : k <= j

\* TOK_REGEX.findall(text), scanning from index i
RECURSIVE FindAllFrom(_, _)
FindAllFrom(text, i) ==
    IF i > Len(text) THEN <<>>
    ELSE LET e == MatchEnd(text, i)
         IN  IF e = 0 THEN FindAllFrom(text, i + 1)
             ELSE <<SubSeq(text, i, e)>> \o FindAllFrom(text, e + 1)

FindAll(text) == FindAllFrom(text, 1)

(* ------------------------ ordered collections ------------------------- *)

\* hotdoc.utils.utils.OrderedSet(urls): first occurrences, in order
RECURSIVE OrderedSet(_)
OrderedSet(urls) ==
    IF urls = <<>> THEN <<>>
    ELSE LET rest == OrderedSet(SubSeq(urls, 1, Len(urls) - 1))
             last == urls[Len(urls)]
         IN  IF last \in Range(rest) THEN rest ELSE Append(rest, last)

\* OrderedSet(urls) - other: the members not in other, order kept
OrderedSetMinus(urls, other) ==
    SelectSeq(OrderedSet(urls), LAMBDA u : u \notin other)

\* a dict with no key
EmptyDict == [k \in {} |-> <<>>]

\* d[key] = value
DictPut(d, key, value) ==
    [k \in DOMAIN d \cup {key} |-> IF k = key THEN value ELSE d[k]]

\* defaultdict(list)[key]
DictGet(d, key) == IF key \in DOMAIN d THEN d[key] ELSE <<>>

(* --------------------------- the Trie ---------------------------------- *)

\* Trie()
NewTrie == {}

\* Trie.insert(token)
TrieInsert(t, token) == t \cup {token}

\* Trie.remove(token)
TrieRemove(t, token) == t \ {token}

\* Trie.to_file(private_path, public_path): the private form
TrieToFile(t) == [exists |-> TRUE, tokens |-> t]

\* Trie.from_file(private_path)
TrieFromFile(f) == f.tokens

(* ------------------------- documents on disk --------------------------- *)

Txt_Widget == <<"W","i","d","g","e","t">>

Txt_widget_factory ==
    <<"w","i","d","g","e","t"," ","f","a","c","t","o","r","y">>

Txt_Foo ==
    <<"F","o","o",".","b","a","r"," ","b","a","z","_","1"," ",
      "T","H","E"," ","q","u","x">>

Txt_The_widget == <<"T","h","e"," ","w","i","d","g","e","t"," ",
                    "w","i","d","g","e","t">>

\* a div[@id] under the content root: its id, the texts of the elements
\* TITLE_SELECTOR finds, the texts of its .//p elements and its markup
Section(id, titles, paras, html) ==
    [id |-> id, titles |-> titles, paras |-> paras, html |-> html]

\* the file does not exist
Missing == [kind |-> "missing", sections |-> <<>>]

\* etree.HTML raises on the contents
Invalid == [kind |-> "invalid", sections |-> <<>>]

\* a page with no div id="main"
NoMain == [kind |-> "nomain", sections |-> <<>>]

Doc(sections) == [kind |-> "doc", sections |-> sections]

\* Widget in the title of s, "widget factory" in the body of t
DocTwoSections ==
    Doc(<<Section(<<"s">>, <<Txt_Widget>>, <<>>, "<div id=s>Widget"),
          Section(<<"t">>, <<>>, <<Txt_widget_factory>>,
                  "<div id=t>widget factory")>>)

\* the same page with section t removed
DocOneSection ==
    Doc(<<Section(<<"s">>, <<Txt_Widget>>, <<>>, "<div id=s>Widget")>>)

\* a section of identifiers and a stopword in capitals, and a section
\* that repeats a word
DocFoo ==
    Doc(<<Section(<<"s">>, <<>>, <<Txt_Foo>>,
                  "<div id=s>Foo.bar baz_1 THE qux"),
          Section(<<"t">>, <<>>, <<Txt_The_widget>>,
                  "<div id=t>The widget widget")>>)

\* relative paths of the scanned files; the first is a prefix of the second
File1 == <<"f">>

File2 == <<"f","2">>

Files == {File1, File2}

\* the contents each file can have
Versions(f) ==
    IF f = File1
    THEN {Missing, Invalid, NoMain, DocTwoSections, DocOneSection, DocFoo}
    ELSE {Missing, DocOneSection}

\* set(open('stopwords.txt').read().split())
StopWords == {<<"t","h","e">>}

(* ---------------------------- parse_content ---------------------------- *)

\* Python's None
None == <<>>

\* the pairs parse_content yields for one element's text
ElemPairs(text, stop_words) ==
    LET tokens == FindAll(text)
    IN  [i \in 1..Len(tokens) |->
            IF tokens[i] \in stop_words
            THEN <<None, tokens[i] \o <<" ">>>>
            ELSE <<tokens[i], tokens[i] \o <<" ">>>>]
        \o <<<<None, <<"\n">>>>>>

\* parse_content over the elements the selector finds
RECURSIVE parse_content(_, _)
parse_content(texts, stop_words) ==
    IF texts = <<>> THEN <<>>
    ELSE ElemPairs(Head(texts), stop_words)
         \o parse_content(Tail(texts), stop_words)

(* ------------------------------ parse_file ----------------------------- *)

\* '%s#%s' % (url, section id)
SectionUrl(url, id) == url \o <<"#">> \o id

\* mutant of PassRecords: the lowercase form is not yielded
RECURSIVE PassRecords_literal(_, _, _)
PassRecords_literal(pairs, section_url, prioritize) ==
    IF pairs = <<>> THEN <<>>
    ELSE LET tok == Head(pairs)[1]
             rest == PassRecords_literal(Tail(pairs), section_url, prioritize)
         IN  IF tok = None THEN rest
             ELSE <<<<tok, section_url, prioritize>>>> \o rest

\* what one tokenizer pass of parse_file yields: the token, and its
\* lowercase form when it has an uppercase character
RECURSIVE PassRecords(_, _, _)
PassRecords(pairs, section_url, prioritize) ==
    IF pairs = <<>> THEN <<>>
    ELSE LET tok == Head(pairs)[1]
             rest == PassRecords(Tail(pairs), section_url, prioritize)
         IN  IF tok = None THEN rest
             ELSE IF HasUpper(tok)
             THEN <<<<tok, section_url, prioritize>>,
                    <<Lower(tok), section_url, prioritize>>>> \o rest
             ELSE <<<<tok, section_url, prioritize>>>> \o rest

\* the title pass, then the body pass, of one section
SectionRecords(url, section, stop_words) ==
    PassRecords(parse_content(section.titles, stop_words),
                SectionUrl(url, section.id), TRUE)
    \o PassRecords(parse_content(section.paras, stop_words),
                   SectionUrl(url, section.id), FALSE)

\* everything parse_file yields for a document
RECURSIVE FileRecords(_, _, _)
FileRecords(url, sections, stop_words) ==
    IF sections = <<>> THEN <<>>
    ELSE SectionRecords(url, Head(sections), stop_words)
         \o FileRecords(url, Tail(sections), stop_words)

(* ----------------------------- write_fragment -------------------------- *)

FragmentSuffix == <<".","f","r","a","g","m","e","n","t">>

\* dest.replace('#', '-')
ReplaceHash(path) == [i \in DOMAIN path |-> IF path[i] = "#" THEN "-" ELSE path[i]]

\* the file of a section's fragment, relative to the fragments directory
FragmentDest(url) == ReplaceHash(url \o FragmentSuffix)

\* write_fragment(fragments_dir, url, text)
write_fragment(store, url, text) ==
    DictPut(store, FragmentDest(url), [url |-> url, fragment |-> text])

\* the fragment writes of parse_file, one per section
RECURSIVE WriteFragments(_, _, _)
WriteFragments(store, url, sections) ==
    IF sections = <<>> THEN store
    ELSE WriteFragments(
            write_fragment(store, SectionUrl(url, Head(sections).id),
                           Head(sections).html),
            url, Tail(sections))

(* ------------------------------- state --------------------------------- *)

VARIABLES
    files,          \* the scanned directory: relative path -> contents
    fragments,      \* search/hotdoc_fragments: file name -> {url, fragment}
    artifacts,      \* search/<token>: token -> urls
    trie_file,      \* private search.trie
    trie_index_js,  \* public trie_index.js
    json_file,      \* private search.json
    full_index,     \* SearchIndex.__full_index
    new_index,      \* SearchIndex.__new_index
    trie,           \* SearchIndex.__trie
    pc,             \* where scan() is, or was when it stopped
    error,          \* the exception that ended scan(), "none" without one
    stale,          \* the stale_filenames argument of scan()
    todo,           \* the files the loop of fill has yet to visit
    to_remove,      \* the fragment names load got from __get_fragments
    nscans,         \* scans started so far
    removed,        \* history: the Section Locations of the fragments
                    \*   the current scan deleted in __get_fragments
    loaded,         \* history: the two indexes when load returned
    recorded,       \* history: the records fill took from parse_file
    at_start,       \* history: the disk when the current scan started
    clean,          \* history: no scan has stopped on an exception
    indexed,        \* history: the stale files of the scan just completed,
                    \*   not edited since
    rescan          \* history: the scan rescans one such file alone

vars == <<files, fragments, artifacts, trie_file, trie_index_js, json_file,
          full_index, new_index, trie, pc, error, stale, todo, to_remove,
          nscans, removed, loaded, recorded, at_start, clean, indexed,
          rescan>>

disk_vars == <<fragments, artifacts, trie_file, trie_index_js, json_file>>

memory_vars == <<full_index, new_index, trie>>

\* a file that does not exist
NoFile == [exists |-> FALSE, tokens |-> {}]

NoJson == [exists |-> FALSE, index |-> EmptyDict]

\* the files written under the output and private directories
Disk == [fragments |-> fragments, artifacts |-> artifacts,
         trie_file |-> trie_file, trie_index_js |-> trie_index_js,
         json_file |-> json_file]

NoLoad == [full_index |-> EmptyDict, new_index |-> EmptyDict]

\* scan() is running
Running == pc \notin {"idle", "done"} /\ error = "none"

\* scan() is not running and the build goes on: before a call, after its
\* return, after an exception of the parser.  After an I/O failure the
\* build is over: what a later build does with the disk it left is not
\* followed.
Idle == ~Running /\ error # "IOError"

Init ==
    /\ files \in [Files -> UNION {Versions(f) : f \in Files}]
    /\ \A f \in Files : files[f] \in Versions(f)
    /\ fragments = EmptyDict
    /\ artifacts = EmptyDict
    /\ trie_file = NoFile
    /\ trie_index_js = NoFile
    /\ json_file = NoJson
    /\ full_index = EmptyDict
    /\ new_index = EmptyDict
    /\ trie = NewTrie
    /\ pc = "idle"
    /\ error = "none"
    /\ stale = {}
    /\ todo = {}
    /\ to_remove = {}
    /\ nscans = 0
    /\ removed = {}
    /\ loaded = NoLoad
    /\ recorded = <<>>
    /\ at_start = Disk
    /\ clean = TRUE
    /\ indexed = {}
    /\ rescan = FALSE

\* the locals and the history of a scan that is over
ScanForgotten ==
    /\ stale' = {}
    /\ todo' = {}
    /\ to_remove' = {}
    /\ removed' = {}
    /\ loaded' = NoLoad
    /\ recorded' = <<>>
    /\ at_start' = Disk
    /\ rescan' = FALSE

(* ------------------------- the environment ----------------------------- *)

\* between two scans the documentation build rewrites or deletes a page
EditFile(f, contents) ==
    /\ Idle
    /\ nscans < MaxScans
    /\ contents # files[f]
    /\ files' = [files EXCEPT ![f] = contents]
    /\ indexed' = indexed \ {f}
    /\ pc' = "idle"
    /\ error' = "none"
    /\ ScanForgotten
    /\ UNCHANGED <<disk_vars, memory_vars, nscans, clean>>

\* SearchIndex(scan_dir, output_dir, private_dir): a new engine on the
\* same directories (prepare_folder leaves existing directories alone)
NewEngine ==
    /\ Idle
    /\ nscans < MaxScans
    /\ full_index' = EmptyDict
    /\ new_index' = EmptyDict
    /\ trie' = NewTrie
    /\ pc' = "idle"
    /\ error' = "none"
    /\ ScanForgotten
    /\ UNCHANGED <<files, disk_vars, nscans, clean, indexed>>

(* -------------------------------- scan ---------------------------------- *)

\* scan(stale_filenames) is called
StartScan(filenames) ==
    /\ Idle
    /\ nscans < MaxScans
    /\ nscans' = nscans + 1
    /\ stale' = filenames
    /\ todo' = filenames
    /\ pc' = "get_fragments"
    /\ error' = "none"
    /\ to_remove' = {}
    /\ removed' = {}
    /\ loaded' = NoLoad
    /\ recorded' = <<>>
    /\ at_start' = Disk
    /\ rescan' = (\E f \in indexed : filenames = {f})
    /\ UNCHANGED <<files, disk_vars, memory_vars, clean, indexed>>

\* s starts with prefix
StartsWith(s, prefix) ==
    Len(prefix) <= Len(s) /\ SubSeq(s, 1, Len(prefix)) = prefix

\* mutant of GlobFragments: the pattern has lost its '*'
GlobFragments_exact(store, filenames) ==
    {dest \in DOMAIN store : \E url \in filenames : dest = url}

\* glob.glob(os.path.join(fragments_dir, url) + '*') for every stale file
GlobFragments(store, filenames) ==
    {dest \in DOMAIN store : \E url \in filenames : StartsWith(dest, url)}

\* os.path.relpath(fragment, fragments_dir)[:-9]
FragmentName(dest) == SubSeq(dest, 1, Len(dest) - 9)

\* os.unlink of each file of names
Unlink(dir, names) == [k \in DOMAIN dir \ names |-> dir[k]]

\* __get_fragments(stale_filenames)
GetFragments ==
    /\ pc = "get_fragments"
    /\ Running
    /\ LET found == GlobFragments(fragments, stale)
       IN  /\ to_remove' = {FragmentName(dest) : dest \in found}
           /\ removed' = {fragments[dest].url : dest \in found}
           /\ fragments' = Unlink(fragments, found)
    /\ pc' = "load"
    /\ UNCHANGED <<files, artifacts, trie_file, trie_index_js, json_file,
                   memory_vars, error, stale, todo, nscans, loaded, recorded,
                   at_start, clean, indexed, rescan>>

\* list(OrderedSet(fragment_urls) - to_remove) for the tokens of keys
NewSets(previous_index, keys, gone) ==
    [token \in keys |-> OrderedSetMinus(previous_index[token], gone)]

\* the loop of load over the tokens of keys: the lists it keeps
LoadIndex(index, previous_index, keys, gone) ==
    LET new_set == NewSets(previous_index, keys, gone)
        kept == {token \in keys : new_set[token] # <<>>}
    IN  [token \in DOMAIN index \cup kept |->
            IF token \in kept THEN new_set[token] ELSE index[token]]

\* the tokens load finds with no location left
Dropped(previous_index, gone) ==
    {token \in DOMAIN previous_index :
        OrderedSetMinus(previous_index[token], gone) = <<>>}

\* the rest of load, after __get_fragments.  os.unlink raises OSError for
\* a dropped token whose file is not there: the loop then stops at some
\* such token, after the tokens the dict gave before it.
Load ==
    /\ pc = "load"
    /\ Running
    /\ LET trie0 == IF trie_file.exists THEN TrieFromFile(trie_file) ELSE trie
           previous_index == IF json_file.exists THEN json_file.index
                             ELSE EmptyDict
           dropped == Dropped(previous_index, to_remove)
       IN  IF dropped \subseteq DOMAIN artifacts
           THEN /\ full_index' = LoadIndex(full_index, previous_index,
                                           DOMAIN previous_index, to_remove)
                /\ trie' = trie0 \ dropped
                /\ artifacts' = Unlink(artifacts, dropped)
                /\ pc' = "fill"
                /\ UNCHANGED <<error, clean, indexed>>
           ELSE \E bad \in dropped \ DOMAIN artifacts :
                \E before \in SUBSET (DOMAIN previous_index \ {bad}) :
                /\ (before \cap dropped) \subseteq DOMAIN artifacts
                /\ full_index' = LoadIndex(full_index, previous_index,
                                           before, to_remove)
                /\ trie' = trie0 \ ((before \cap dropped) \cup {bad})
                /\ artifacts' = Unlink(artifacts, before \cap dropped)
                /\ error' = "OSError"
                /\ clean' = FALSE
                /\ indexed' = {}
                /\ pc' = pc
    /\ loaded' = [full_index |-> full_index', new_index |-> new_index]
    /\ UNCHANGED <<files, fragments, trie_file, trie_index_js, json_file,
                   new_index, stale, todo, to_remove, nscans, removed,
                   recorded, at_start, rescan>>

\* mutant of record: the title pass appends like the body pass
record_appends(index, token, section_url, prioritize) ==
    DictPut(index, token, Append(DictGet(index, token), section_url))

\* the body of the loop of fill for one record of parse_file
record(index, token, section_url, prioritize) ==
    IF ~prioritize
    THEN DictPut(index, token, Append(DictGet(index, token), section_url))
    ELSE DictPut(index, token, <<section_url>> \o DictGet(index, token))

\* the loop of fill over the records of one file
RECURSIVE RecordAll(_, _)
RecordAll(index, records) ==
    IF records = <<>> THEN index
    ELSE RecordAll(record(index, Head(records)[1], Head(records)[2],
                          Head(records)[3]),
                   Tail(records))

\* mutant of Fill_Next: search.json is rewritten after every file
Fill_Next_checkpoints ==
    /\ pc = "fill"
    /\ Running
    /\ \E filename \in todo :
        /\ files[filename].kind # "invalid"
        /\ todo' = todo \ {filename}
        /\ LET records == FileRecords(filename, files[filename].sections,
                                      StopWords)
           IN  /\ full_index' = RecordAll(full_index, records)
               /\ new_index' = RecordAll(new_index, records)
               /\ recorded' = recorded \o records
        /\ fragments' = WriteFragments(fragments, filename,
                                       files[filename].sections)
    /\ json_file' = [exists |-> TRUE, index |-> full_index']
    /\ UNCHANGED <<files, artifacts, trie_file, trie_index_js,
                   trie, pc, error, stale, to_remove, nscans, removed, loaded,
                   at_start, clean, indexed, rescan>>

\* mutant of Fill_Next: fill does not test os.path.exists, and io.open
\* raises for a file that is gone
Fill_Next_opens_missing ==
    /\ pc = "fill"
    /\ Running
    /\ \E filename \in todo :
        /\ files[filename].kind # "invalid"
        /\ todo' = todo \ {filename}
        /\ error' = IF files[filename].kind = "missing" THEN "IOError"
                    ELSE error
        /\ LET records == FileRecords(filename, files[filename].sections,
                                      StopWords)
           IN  /\ full_index' = RecordAll(full_index, records)
               /\ new_index' = RecordAll(new_index, records)
               /\ recorded' = recorded \o records
        /\ fragments' = WriteFragments(fragments, filename,
                                       files[filename].sections)
    /\ UNCHANGED <<files, artifacts, trie_file, trie_index_js, json_file,
                   trie, pc, stale, to_remove, nscans, removed, loaded,
                   at_start, clean, indexed, rescan>>

\* fill: one turn of the loop over the stale files, for a file that is
\* missing (continue), has no content root (parse_file returns at once)
\* or parses
Fill_Next ==
    /\ pc = "fill"
    /\ Running
    /\ \E filename \in todo :
        /\ files[filename].kind # "invalid"
        /\ todo' = todo \ {filename}
        /\ LET records == FileRecords(filename, files[filename].sections,
                                      StopWords)
           IN  /\ full_index' = RecordAll(full_index, records)
               /\ new_index' = RecordAll(new_index, records)
               /\ recorded' = recorded \o records
        /\ fragments' = WriteFragments(fragments, filename,
                                       files[filename].sections)
    /\ UNCHANGED <<files, artifacts, trie_file, trie_index_js, json_file,
                   trie, pc, error, stale, to_remove, nscans, removed, loaded,
                   at_start, clean, indexed, rescan>>

\* fill: etree.HTML raises in parse_file; nothing catches it, and scan()
\* ends with the exception
Fill_ParseError ==
    /\ pc = "fill"
    /\ Running
    /\ \E filename \in todo : files[filename].kind = "invalid"
    /\ error' = "XMLSyntaxError"
    /\ clean' = FALSE
    /\ indexed' = {}
    /\ UNCHANGED <<files, disk_vars, memory_vars, pc, stale, todo, to_remove,
                   nscans, removed, loaded, recorded, at_start, rescan>>

\* fill returns
Fill_End ==
    /\ pc = "fill"
    /\ Running
    /\ todo = {}
    /\ pc' = "save_tokens"
    /\ UNCHANGED <<files, disk_vars, memory_vars, error, stale, todo,
                   to_remove, nscans, removed, loaded, recorded, at_start,
                   clean, indexed, rescan>>

\* mutant of InsertTokens: save forgets the Trie
InsertTokens_none(t, index) == t

\* save: the trie inserts of the loop over sorted(new_index.items())
InsertTokens(t, index) == t \cup DOMAIN index

\* save: the files search/<token> the loop writes
WriteArtifacts(dir, index) ==
    [token \in DOMAIN dir \cup DOMAIN index |->
        IF token \in DOMAIN index THEN OrderedSet(index[token])
        ELSE dir[token]]

\* mutant of SaveTokens: the trie is written to search.trie as the loop
\* inserts into it
SaveTokens_trie_first ==
    /\ pc = "save_tokens"
    /\ Running
    /\ trie' = InsertTokens(trie, new_index)
    /\ artifacts' = WriteArtifacts(artifacts, new_index)
    /\ trie_file' = TrieToFile(trie')
    /\ pc' = "save_trie"
    /\ UNCHANGED <<files, fragments, trie_index_js, json_file,
                   full_index, new_index, error, stale, todo, to_remove,
                   nscans, removed, loaded, recorded, at_start, clean,
                   indexed, rescan>>

\* save: the loop over the touched tokens
SaveTokens ==
    /\ pc = "save_tokens"
    /\ Running
    /\ trie' = InsertTokens(trie, new_index)
    /\ artifacts' = WriteArtifacts(artifacts, new_index)
    /\ pc' = "save_trie"
    /\ UNCHANGED <<files, fragments, trie_file, trie_index_js, json_file,
                   full_index, new_index, error, stale, todo, to_remove,
                   nscans, removed, loaded, recorded, at_start, clean,
                   indexed, rescan>>

\* save: self.__trie.to_file(search.trie, trie_index.js)
SaveTrie ==
    /\ pc = "save_trie"
    /\ Running
    /\ trie_file' = TrieToFile(trie)
    /\ trie_index_js' = TrieToFile(trie)
    /\ pc' = "save_json"
    /\ UNCHANGED <<files, fragments, artifacts, json_file, memory_vars, error,
                   stale, todo, to_remove, nscans, removed, loaded, recorded,
                   at_start, clean, indexed, rescan>>

\* json.dumps(self.__full_index), as json.loads gives it back
JsonDump(index) == [exists |-> TRUE, index |-> index]

\* save: search.json is written and scan() returns
SaveJson ==
    /\ pc = "save_json"
    /\ Running
    /\ json_file' = JsonDump(full_index)
    /\ pc' = "done"
    /\ indexed' = IF clean THEN stale ELSE {}
    /\ UNCHANGED <<files, fragments, artifacts, trie_file, trie_index_js,
                   memory_vars, error, stale, todo, to_remove, nscans, removed,
                   loaded, recorded, at_start, clean, rescan>>

\* the characters a token can have, in code point order
CodePoints ==
    <<".", "0", "1", "2", "3", "4", "5", "6", "7", "8", "9">>
    \o UpperChars \o <<"_">> \o LowerChars

\* Python's ord, as far as comparing two of these characters needs it
ord == [c \in Range(CodePoints) |->
           CHOOSE i \in DOMAIN CodePoints : CodePoints[i] = c]

\* a < b for two str: decided at the first index where they differ, or
\* by the lengths when one is a prefix of the other
StrLess(a, b) ==
    LET differ == {i \in DOMAIN a \cap DOMAIN b : a[i] # b[i]}
    IN  IF differ = {} THEN Len(a) < Len(b)
        ELSE LET i == CHOOSE d \in differ : \A e \in differ : d <= e
             IN  ord[a[i]] < ord[b[i]]

\* the keys that sorted(...) puts up to and including the key last
UpTo(keys, last) == {key \in keys : key = last \/ StrLess(key, last)}

\* the items of a dict for some of its keys
Restrict(index, keys) == [token \in keys |-> index[token]]

\* save: the open of a file search/<token> fails after the loop has
\* written the files of the touched tokens up to some token that is not
\* the last, in sorted order
SaveTokens_Stopped ==
    /\ pc = "save_tokens"
    /\ Running
    /\ \E last \in DOMAIN new_index :
        /\ UpTo(DOMAIN new_index, last) # DOMAIN new_index
        /\ LET written == Restrict(new_index, UpTo(DOMAIN new_index, last))
           IN  /\ trie' = InsertTokens(trie, written)
               /\ artifacts' = WriteArtifacts(artifacts, written)
    /\ error' = "IOError"
    /\ clean' = FALSE
    /\ indexed' = {}
    /\ UNCHANGED <<files, fragments, trie_file, trie_index_js, json_file,
                   full_index, new_index, pc, stale, todo, to_remove, nscans,
                   removed, loaded, recorded, at_start, rescan>>

\* an I/O failure (disk full, permission denied) in an open, a write or an
\* unlink ends scan() where it is
IOFailure ==
    /\ Running
    /\ error' = "IOError"
    /\ clean' = FALSE
    /\ indexed' = {}
    /\ UNCHANGED <<files, disk_vars, memory_vars, pc, stale, todo, to_remove,
                   nscans, removed, loaded, recorded, at_start, rescan>>

Next ==
    \/ \E f \in Files : \E contents \in Versions(f) : EditFile(f, contents)
    \/ NewEngine
    \/ \E filenames \in SUBSET Files : StartScan(filenames)
    \/ GetFragments
    \/ Load
    \/ Fill_Next
    \/ Fill_ParseError
    \/ Fill_End
    \/ SaveTokens
    \/ SaveTrie
    \/ SaveJson

Spec == Init /\ [][Next]_vars

\* the same program where an I/O failure can end a scan anywhere
NextOrFailure ==
    \/ Next
    \/ IOFailure
    \/ SaveTokens_Stopped

FailureSpec == Init /\ [][NextOrFailure]_vars

(* ----------------------------- properties ------------------------------ *)

Reverse(s) == [i \in 1..Len(s) |-> s[Len(s) + 1 - i]]

NoDuplicate(s) == \A i, j \in DOMAIN s : s[i] = s[j] => i = j

\* the relative path of a Section Location: what precedes its first '#'
UrlOf(location) ==
    LET hashes == {i \in DOMAIN location : location[i] = "#"}
        first == CHOOSE i \in hashes : \A j \in hashes : i <= j
    IN  IF hashes = {} THEN location ELSE SubSeq(location, 1, first - 1)

\* load has just returned
EndOfLoading == Running /\ pc = "fill" /\ todo = stale

\* scan() has just returned
Completed == pc = "done"

\* the tokens of the persisted Trie
PersistedTrie == IF trie_file.exists THEN trie_file.tokens ELSE {}

\* the persisted Full Index
PersistedIndex == IF json_file.exists THEN json_file.index ELSE EmptyDict

\* the tokens with at least one location in index
Located(index) == {token \in DOMAIN index : index[token] # <<>>}

\* the locations fill recorded for token in the title (TRUE) or the body
\* (FALSE) pass, in record order
RecordedLocs(token, prioritize) ==
    LET mine == SelectSeq(recorded,
                          LAMBDA r : r[1] = token /\ r[3] = prioritize)
    IN  [i \in 1..Len(mine) |-> mine[i][2]]

\* the tokens fill recorded at location, in record order
RecordedTokens(location) ==
    LET mine == SelectSeq(recorded, LAMBDA r : r[2] = location)
    IN  [i \in 1..Len(mine) |-> mine[i][1]]

\* C1: when every scan so far has completed, the token set of the
\* persisted Trie is the key set of the persisted Full Index, every key
\* has at least one location, and at the end of Loading the Trie and the
\* Full Index in memory agree in the same way.
TrieIndexConsistency ==
    clean =>
        /\ Idle => /\ PersistedTrie = DOMAIN PersistedIndex
                   /\ Located(PersistedIndex) = DOMAIN PersistedIndex
        /\ EndOfLoading => /\ trie = DOMAIN full_index
                           /\ Located(full_index) = DOMAIN full_index

\* C1 witness: a second completed scan, with a deleted file in its stale
\* set, has left a Trie and a Full Index that are not empty.
TrieIndexConsistencyReached ==
    /\ clean
    /\ Completed
    /\ nscans >= 2
    /\ \E f \in stale : files[f].kind = "missing"
    /\ PersistedTrie # {}
    /\ PersistedTrie = DOMAIN PersistedIndex

\* C2: at the end of Loading no list of the Full Index holds the Section
\* Location of a fragment deleted for the stale files, and a persisted
\* token whose locations were all removed is in none of the Full Index,
\* the Trie and the search directory.
PruningInvariant ==
    (clean /\ EndOfLoading) =>
        /\ \A token \in DOMAIN full_index :
               Range(full_index[token]) \cap removed = {}
        /\ \A token \in DOMAIN at_start.json_file.index :
               Range(at_start.json_file.index[token]) \subseteq removed =>
                   /\ token \notin DOMAIN full_index
                   /\ token \notin trie
                   /\ token \notin DOMAIN artifacts

\* C3: after a completed scan, a location of a stale file in the persisted
\* Full Index names a section of the file as it is now, and the token it
\* is listed for was recorded from that section.
StaleLocationsAreCurrent ==
    (clean /\ Completed) =>
        \A f \in stale : \A token \in DOMAIN PersistedIndex :
        \A location \in Range(PersistedIndex[token]) :
            UrlOf(location) = f =>
                \E section \in Range(files[f].sections) :
                    /\ location = SectionUrl(f, section.id)
                    /\ \E r \in Range(SectionRecords(f, section, StopWords)) :
                           r[1] = token

\* C4: a completed scan of one unchanged file that the scan before it
\* indexed leaves search.json and the Trie as they were, and no list of
\* search.json has a duplicate.
IdempotentRescan ==
    (clean /\ Completed /\ rescan) =>
        /\ json_file = at_start.json_file
        /\ trie_file = at_start.trie_file
        /\ \A token \in DOMAIN PersistedIndex :
               NoDuplicate(PersistedIndex[token])

\* C5: from the end of Loading on, the list of every token in the Full
\* Index is the title locations recorded for it, latest first, then the
\* list it had after Loading, then the body locations recorded for it,
\* earliest first; the Delta Index is built the same way.
PriorityOrdering ==
    pc \in {"fill", "save_tokens", "save_trie", "save_json", "done"} =>
        \A token \in DOMAIN full_index \cup {r[1] : r \in Range(recorded)} :
            /\ DictGet(full_index, token) =
                   Reverse(RecordedLocs(token, TRUE))
                   \o DictGet(loaded.full_index, token)
                   \o RecordedLocs(token, FALSE)
            /\ DictGet(new_index, token) =
                   Reverse(RecordedLocs(token, TRUE))
                   \o DictGet(loaded.new_index, token)
                   \o RecordedLocs(token, FALSE)

\* C5 witness: a token that had locations after Loading was recorded for
\* a body location and, later, for a title location.
PriorityOrderingReached ==
    /\ pc = "fill"
    /\ \E i, j \in DOMAIN recorded :
        /\ i < j
        /\ recorded[i][1] = recorded[j][1]
        /\ ~recorded[i][3]
        /\ recorded[j][3]
        /\ DictGet(loaded.full_index, recorded[i][1]) # <<>>
        /\ full_index[recorded[i][1]][1] = recorded[j][2]

\* C6: no stopword is a key of the Full Index or of the Delta Index, a
\* token of the Trie or the name of a per-token artifact, in memory or on
\* disk.
StopWordsNeverIndexed ==
    \A word \in StopWords :
        /\ word \notin DOMAIN full_index
        /\ word \notin DOMAIN new_index
        /\ word \notin trie
        /\ word \notin DOMAIN artifacts
        /\ word \notin PersistedTrie
        /\ word \notin DOMAIN PersistedIndex

Tok_Foo_bar == <<"F","o","o",".","b","a","r">>

Tok_baz_1 == <<"b","a","z","_","1">>

Tok_qux == <<"q","u","x">>

\* C7: for the text "Foo.bar baz_1 THE qux" and the stopword "the", the
\* tokens recorded for the section are Foo.bar, baz_1 and qux in that
\* order, and the lowercase duplicate foo.bar; nothing else.
TokenizationOfFoo ==
    \A f \in Files :
        (pc = "fill" /\ files[f] = DocFoo /\ f \in stale \ todo) =>
            LET tokens == RecordedTokens(SectionUrl(f, <<"s">>))
            IN  /\ SelectSeq(tokens, LAMBDA t : t # Lower(Tok_Foo_bar)) =
                       <<Tok_Foo_bar, Tok_baz_1, Tok_qux>>
                /\ Range(tokens) =
                       {Tok_Foo_bar, Lower(Tok_Foo_bar), Tok_baz_1, Tok_qux}

\* C8: after a completed Saving no list of search.json holds a Section
\* Location twice.
SnapshotDeduplicated ==
    (clean /\ Completed) =>
        \A token \in DOMAIN PersistedIndex : NoDuplicate(PersistedIndex[token])

\* C9: a file that fails to parse during Filling does not end the scan.
ParseFailureSkipsFile == error # "XMLSyntaxError"

\* C10 as stated: at every point of Loading and Filling, where a stop
\* would leave the disk as it is, the whole disk is as the previous
\* successful Saving left it.
NoIntermediatePersistence ==
    (clean /\ pc \in {"get_fragments", "load", "fill"}) => Disk = at_start

\* C10 amended: at every point of Loading and Filling, and after a stop
\* there, search.trie, trie_index.js and search.json are as they were
\* when the scan started.
PrivateStateUntouchedBeforeSaving ==
    pc \in {"get_fragments", "load", "fill"} =>
        /\ trie_file = at_start.trie_file
        /\ trie_index_js = at_start.trie_index_js
        /\ json_file = at_start.json_file

\* C10 witness: a scan stopped during Filling after an earlier scan had
\* saved; the fragment records have changed, the private files have not.
StoppedBeforeSavingReached ==
    /\ pc = "fill"
    /\ error = "IOError"
    /\ json_file.exists
    /\ DOMAIN json_file.index # {}
    /\ fragments # at_start.fragments
    /\ json_file = at_start.json_file
    /\ trie_file = at_start.trie_file

\* C11: when the loop of save starts, the keys of the Delta Index are the
\* tokens recorded by this scan's Filling and its lists hold only the
\* locations this scan recorded for them; and the Full Index in memory has
\* no token whose persisted locations Loading removed, all of them, and
\* that Filling did not record again.
DeltaIndexScopedToRun ==
    (clean /\ Running /\ pc = "save_tokens") =>
        /\ DOMAIN new_index = {r[1] : r \in Range(recorded)}
        /\ \A token \in DOMAIN new_index :
               Range(new_index[token]) \subseteq
                   {r[2] : r \in {q \in Range(recorded) : q[1] = token}}
        /\ \A token \in DOMAIN at_start.json_file.index :
               (/\ Range(at_start.json_file.index[token]) \subseteq removed
                /\ token \notin {r[1] : r \in Range(recorded)})
               => token \notin DOMAIN full_index

FragmentsOf(store, f) == {dest \in DOMAIN store : UrlOf(store[dest].url) = f}

\* C13: after a completed scan the fragment records of every stale file
\* are those of the sections the file has now, one file per section, with
\* that section's location and markup; none when the file is gone or has
\* no content root.
FragmentsMatchSections ==
    Completed =>
        \A f \in stale :
            /\ {fragments[dest].url : dest \in FragmentsOf(fragments, f)} =
                   {SectionUrl(f, section.id) :
                        section \in Range(files[f].sections)}
            /\ Cardinality(FragmentsOf(fragments, f)) =
                   Len(files[f].sections)
            /\ \A section \in Range(files[f].sections) :
                   LET url == SectionUrl(f, section.id)
                   IN  /\ FragmentDest(url) \in DOMAIN fragments
                       /\ fragments[FragmentDest(url)] =
                              [url |-> url, fragment |-> section.html]

\* C13 witness: a completed scan of a file that still has a section and
\* had, when the scan started, the fragment of a section it has lost.
FragmentsMatchSectionsReached ==
    /\ Completed
    /\ \E f \in stale :
        /\ files[f].sections # <<>>
        /\ \E dest \in FragmentsOf(at_start.fragments, f) :
               dest \notin DOMAIN fragments

\* C14: the turn of the loop of fill for a stale file that is gone or has
\* no content root records nothing, writes no fragment and raises nothing,
\* and the loop goes on with the other files; a scan stopped in Filling by
\* the parser still has a file to visit that does not parse.
SkippedFileLeavesNoTrace ==
    /\ [][\A f \in Files :
            (/\ Running
             /\ pc = "fill"
             /\ f \in todo
             /\ f \notin todo'
             /\ files[f].kind \in {"missing", "nomain"})
            => /\ recorded' = recorded
               /\ full_index' = full_index
               /\ new_index' = new_index
               /\ fragments' = fragments
               /\ error' = "none"
               /\ pc' = "fill"
               /\ todo' = todo \ {f}]_vars
    /\ [](error = "XMLSyntaxError" =>
              \E f \in todo : files[f].kind = "invalid")

\* C14 witness: a scan has completed whose stale files are one that is
\* gone or has no content root and one that was indexed.
SkippedFileLeavesNoTraceReached ==
    /\ Completed
    /\ \E f \in stale : files[f].kind \in {"missing", "nomain"}
    /\ \E f \in stale : /\ files[f].kind = "doc"
                        /\ \E r \in Range(recorded) : UrlOf(r[2]) = f

\* the locations of the uppercase-bearing tokens of an index are locations
\* of their lowercase forms
CaseVariantsAgree(index) ==
    \A token \in DOMAIN index :
        HasUpper(token) =>
            /\ Lower(token) \in DOMAIN index
            /\ Range(index[token]) \subseteq Range(index[Lower(token)])

\* C15: from an empty store and as long as no scan has stopped on an
\* exception, every token of the Full Index (in memory and as persisted)
\* that has an uppercase character has its lowercase form as a key too,
\* holding all of its locations; and each record of such a token is
\* immediately followed by the record of its lowercase form at the same
\* location with the same priority.
CaseVariantsShareLocations ==
    /\ clean => /\ CaseVariantsAgree(full_index)
                /\ CaseVariantsAgree(PersistedIndex)
    /\ \A i \in 1..Len(recorded) :
           HasUpper(recorded[i][1]) =>
               /\ i + 1 <= Len(recorded)
               /\ recorded[i + 1] = <<Lower(recorded[i][1]), recorded[i][2],
                                      recorded[i][3]>>

\* C15 witness: after a completed scan, none having stopped before it,
\* the persisted Full Index holds a token with an uppercase character
\* that this scan recorded, and its lowercase form is found at a
\* location more.
CaseVariantsShareLocationsReached ==
    /\ clean
    /\ Completed
    /\ \E token \in Located(PersistedIndex) :
           /\ HasUpper(token)
           /\ RecordedLocs(token, TRUE) # <<>>
           /\ Range(PersistedIndex[Lower(token)]) #
                  Range(PersistedIndex[token])

\* C17: after a completed scan every token of the persisted Full Index
\* has its per-token artifact, whose urls are the locations the Full
\* Index has for the token, deduplicated in order.
ArtifactsAgreeWithIndex ==
    Completed =>
        \A token \in DOMAIN PersistedIndex :
            /\ token \in DOMAIN artifacts
            /\ artifacts[token] = OrderedSet(PersistedIndex[token])

\* C18: while a scan runs and once it is over, the Section Locations of
\* the deleted fragments are locations of stale files, and the fragment
\* record of every file that is not stale is as it was when the scan
\* started.
LoadingTouchesOnlyStale ==
    (pc \notin {"idle", "get_fragments"}) =>
        /\ \A location \in removed : UrlOf(location) \in stale
        /\ \A dest \in DOMAIN at_start.fragments :
               UrlOf(at_start.fragments[dest].url) \notin stale =>
                   /\ dest \in DOMAIN fragments
                   /\ fragments[dest] = at_start.fragments[dest]

\* the file search/<token> has been rewritten since the scan started
Rewritten(token) ==
    /\ token \in DOMAIN artifacts
    /\ \/ token \notin DOMAIN at_start.artifacts
       \/ artifacts[token] # at_start.artifacts[token]

\* the file search/<token> holds what this save writes for the token
Published(token) ==
    /\ token \in DOMAIN artifacts
    /\ artifacts[token] = OrderedSet(new_index[token])

\* C19: search.trie, trie_index.js and search.json are as the scan found
\* them until Saving; in Saving the per-token files come first, a token's
\* file only after the files of the touched tokens sorted before it, then
\* the two forms of the Trie, then search.json; and the on-disk Trie has a
\* token that the on-disk Full Index lacks only between the last two.
SavingWriteOrder ==
    /\ pc \in {"get_fragments", "load", "fill", "save_tokens", "save_trie"} =>
           /\ trie_file = at_start.trie_file
           /\ trie_index_js = at_start.trie_index_js
           /\ json_file = at_start.json_file
    /\ pc \in {"get_fragments", "load", "fill"} =>
           \A token \in DOMAIN artifacts : ~Rewritten(token)
    /\ pc = "save_tokens" =>
           \A token, later \in DOMAIN new_index :
               (StrLess(token, later) /\ Rewritten(later)) => Published(token)
    /\ pc \in {"save_trie", "save_json", "done"} =>
           \A token \in DOMAIN new_index : Published(token)
    /\ pc \in {"save_json", "done"} =>
           /\ trie_file = TrieToFile(trie)
           /\ trie_index_js = TrieToFile(trie)
    /\ pc = "save_json" => json_file = at_start.json_file
    /\ pc = "done" => json_file = JsonDump(full_index)
    /\ ~(PersistedTrie \subseteq DOMAIN PersistedIndex) => pc = "save_json"

\* C19 witness: a scan stopped after the Trie was written and before
\* search.json was; the per-token files are written, and search.trie has
\* a token that search.json lacks.
StoppedBetweenTrieAndIndexReached ==
    /\ pc = "save_json"
    /\ error = "IOError"
    /\ artifacts # at_start.artifacts
    /\ trie_file # at_start.trie_file
    /\ json_file.exists
    /\ ~(PersistedTrie \subseteq DOMAIN PersistedIndex)

====
